---- MODULE Spec2Model ----
(***************************************************************************)
(* TRINETRA pipeline: the stream ingestor (camera -> Frame Bus), the       *)
(* inference worker (Frame Bus -> Event Bus), the identity resolver        *)
(* (Event Bus -> identities/alerts) and the spatiotemporal gate.           *)
(*                                                                         *)
(* Times are integer seconds (the source uses floats; every constant of    *)
(* the source that matters here is a whole number of seconds). Cosine      *)
(* scores are integer hundredths (0.72 is 72). Python's None is the empty  *)
(* sequence for Optional[dict] values and the string "None" for            *)
(* Optional[str] values.                                                   *)
(***************************************************************************)
EXTENDS Integers, Sequences, FiniteSets, TLC

VARIABLES
    \* ---- spatiotemporal gate called on its own (SpecGate)
    g_in,            \* arguments of one call of SpatiotemporalGate.evaluate
    g_out,           \* its return value ("pending" before the call)
    \* ---- identity resolver (SpecResolver)
    r_pc,            \* position of main()'s consume loop
    now,             \* time.time() of the resolver's host
    registry,        \* ActiveIdentityRegistry._registry
    evict_counter,   \* main(): evict_counter
    event,           \* msg.value of the event being handled (<<>> when idle)
    search_results,  \* what qdrant.search returned for it: <<list>>, or <<>> while unbound
    resolved,        \* (resolved, alert) returned by resolve (<<>> when none)
    alert,
    identities,      \* trinetra.identities: number of records sent to it
    alerts,          \* trinetra.alerts: number of records sent to it
    consumed,        \* number of events taken from trinetra.detections
    \* ---- Frame Bus and inference worker (SpecWorker)
    streams,         \* Redis streams frames:{camera_id}: the entries of each
    last_delivered,  \* consumer group inference-workers: last-delivered id per stream
    pel,             \* its pending entries list: delivered and not acked
    w_pc,            \* position of the worker ("dead" after a kill)
    consumer_id,     \* worker-{pid}: the worker processes started so far
    acc_batch,       \* MicroBatchAccumulator._batch
    acc_age,         \* perf_counter() - MicroBatchAccumulator._batch_start, in ms
    acc_wait,        \* ms the oldest frame of _batch (of batch, once flushed) spent in the accumulator
    batch,           \* _process_batch: the flushed batch
    meta,            \* _process_batch: the messages that decoded
    all_results,     \* _process_batch: one InferenceResult per decoded frame
    produced,        \* messages handed to kafka_producer.produce, with their fate
    \* ---- one method called on its own (SpecAccumulator, SpecRegistry, SpecRerun)
    a_in,            \* the arguments of the call
    a_ret,           \* what the call returned
    \* ---- stream ingestor, one camera (SpecSampler, SpecIngestor)
    base_interval,   \* AdaptiveFrameSampler.base_interval
    current_interval,\* AdaptiveFrameSampler.current_interval
    s_count,         \* AdaptiveFrameSampler._count
    prev_gray,       \* whether AdaptiveFrameSampler._prev_gray holds a frame
    rd_pc,           \* position of RTSPCameraReader._blocking_reader_loop (its thread)
    delay,           \* _blocking_reader_loop: delay, in seconds
    cap_opened,      \* _blocking_reader_loop: cap.isOpened()
    captured,        \* frames cap.read() has returned; frame k is the k-th of them
    rd_frame,        \* _blocking_reader_loop: the frame just read (<<>> when none)
    reader_stop,     \* RTSPCameraReader._stop
    queue,           \* frame_queue: the frames waiting for the publisher
    dropped,         \* FRAMES_DROPPED of the camera
    ingested,        \* FRAMES_INGESTED of the camera
    stop_event,      \* _stop_event
    p_pc,            \* position of push_frames_to_redis
    p_frame,         \* push_frames_to_redis: the frame in hand (<<>> when none)
    bus,             \* the stream frames:{camera_id} of this camera: its entries
    bus_delivered    \* the newest of its entries a consumer has read

gvars == <<g_in, g_out>>
rvars == <<r_pc, now, registry, evict_counter, event, search_results,
           resolved, alert, identities, alerts, consumed>>
wvars == <<streams, last_delivered, pel, w_pc, consumer_id, acc_batch, acc_age,
           acc_wait, batch, meta, all_results, produced>>
avars == <<a_in, a_ret>>
svars == <<base_interval, current_interval, s_count, prev_gray>>
pvars == <<rd_pc, delay, cap_opened, captured, rd_frame, reader_stop, queue, dropped,
           ingested, stop_event, p_pc, p_frame, bus, bus_delivered>>
ivars == <<svars, pvars>>
vars == <<gvars, rvars, wvars, avars, ivars>>

None == "None"

(***************************************************************************)
(* gating.py                                                               *)
(***************************************************************************)
ACCEPT == "accept"
REJECT_PHYSICS == "reject_physics"
REJECT_TIMEOUT == "reject_timeout"
GateResult == {ACCEPT, REJECT_PHYSICS, REJECT_TIMEOUT}

DEFAULT_TRAVEL_MATRIX ==
    ( "cam_entrance_01" :> ( "cam_face_01" :> 2 @@ "cam_tracking_01" :> 5 @@
                             "cam_billing_01" :> 10 @@ "cam_vehicle_01" :> 15 ) ) @@
    ( "cam_face_01"     :> ( "cam_entrance_01" :> 2 @@ "cam_tracking_01" :> 5 @@
                             "cam_billing_01" :> 10 ) ) @@
    ( "cam_tracking_01" :> ( "cam_entrance_01" :> 5 @@ "cam_face_01" :> 5 @@
                             "cam_billing_01" :> 5 ) ) @@
    ( "cam_billing_01"  :> ( "cam_entrance_01" :> 10 @@ "cam_tracking_01" :> 5 ) )

UNKNOWN_CAMERA_MIN_TRAVEL == 3

gate_window_s == 3600

\* the empty dict
EmptyDict == [k \in {} |-> None]

\* dict.get(key, default)
DictGet(d, key, default) == IF key \in DOMAIN d THEN d[key] ELSE default

\* SpatiotemporalGate._lookup_travel_time with self.matrix = DEFAULT_TRAVEL_MATRIX
lookup_travel_time(from_cam, to_cam) ==
    LET from_matrix == DictGet(DEFAULT_TRAVEL_MATRIX, from_cam, EmptyDict)
    IN  DictGet(from_matrix, to_cam, UNKNOWN_CAMERA_MIN_TRAVEL)

\* evaluate with the travel-time comparison made inclusive (elapsed <= min_travel)
evaluate_inclusive(candidate_id, current_camera, current_ts, last_seen) ==
    IF last_seen = <<>> THEN ACCEPT
    ELSE LET last_camera == last_seen[1].camera_id
             last_ts     == last_seen[1].last_seen_ts
             elapsed     == current_ts - last_ts
         IN  IF last_camera = current_camera THEN ACCEPT
             ELSE IF elapsed > gate_window_s THEN ACCEPT
             ELSE IF elapsed <= lookup_travel_time(last_camera, current_camera)
                  THEN REJECT_PHYSICS
             ELSE ACCEPT

\* SpatiotemporalGate.evaluate; last_seen is <<>> (None) or <<record>>
evaluate(candidate_id, current_camera, current_ts, last_seen) ==
    IF last_seen = <<>> THEN ACCEPT
    ELSE LET last_camera == last_seen[1].camera_id
             last_ts     == last_seen[1].last_seen_ts
             elapsed     == current_ts - last_ts
         IN  IF last_camera = current_camera THEN ACCEPT
             ELSE IF elapsed > gate_window_s THEN ACCEPT
             ELSE IF elapsed < lookup_travel_time(last_camera, current_camera)
                  THEN REJECT_PHYSICS
             ELSE ACCEPT

(***************************************************************************)
(* Sample values                                                           *)
(***************************************************************************)
\* two cameras of the matrix and one that has no row in it
GateCameras == {"cam_entrance_01", "cam_billing_01", "cam_vehicle_01"}
\* the cameras of the events the resolver sees
Cameras == {"cam_entrance_01", "cam_billing_01"}
\* the camera streams the worker discovered at startup
WCameras == {"cam_entrance_01", "cam_billing_01"}
Customers == {"alice", "bob"}
\* timestamps around the travel times (3, 10, 15) and the window (3600)
GateTimes == {0, 2, 3, 9, 10, 11, 15, 3600, 3601}

GateLastSeen ==
    {<<>>} \cup { <<[camera_id |-> c, last_seen_ts |-> t]>> : c \in GateCameras, t \in GateTimes }

GateInputs ==
    [candidate_id : Customers, current_camera : GateCameras, current_ts : GateTimes,
     last_seen : GateLastSeen]

(***************************************************************************)
(* identity_resolver/main.py and config.py                                 *)
(***************************************************************************)
COSINE_THRESHOLD == 72
SEARCH_LIMIT == 5
REGISTRY_TTL == 3600
EVICT_EVERY == 1000

\* Python truthiness of an Optional[str]
Truthy(s) == s # None /\ s # ""

\* wall-clock samples of the resolver's host; the clock never runs backwards
NowPoints == {0, 3600, 3620}
\* ingest_ts samples (stamped by the ingestor's host, whose clock may differ)
EventTimes == {0, 3, 10, 3601}
CameraType(c) == IF c = "cam_billing_01" THEN "billing" ELSE "entrance"

E1 == <<1>>                      \* an embedding vector
D1 == [track_id |-> 0, bbox |-> <<0, 0, 1, 1>>, confidence |-> 90, class_id |-> 0]

\* InferenceEvents as the resolver may find them on trinetra.detections:
\* well-formed ones, and ones that lack the camera_id key
WellFormedEvents ==
    { [camera_id |-> c, camera_type |-> CameraType(c), ingest_ts |-> t,
       embeddings |-> ed[1], detections |-> ed[2]] :
        c \in Cameras, t \in EventTimes,
        ed \in {<< <<>>, <<>> >>, << <<E1>>, <<D1>> >>, << <<>>, <<D1>> >>,
               << <<E1>>, <<>> >>} }
MalformedEvents ==
    { [camera_type |-> "billing", ingest_ts |-> t, embeddings |-> <<E1>>,
       detections |-> <<D1>>] : t \in {0} }
Events == WellFormedEvents \cup MalformedEvents

\* gallery points near a query, best first: payload with or without customer_id
PayloadIds == Customers \cup {""}
Payloads == { [customer_id |-> id] : id \in PayloadIds } \cup { EmptyDict }
Scores == {95, 72, 60}
ScoredPoints == [payload : Payloads, score : Scores]
MaxHits == 2
HitLists ==
    { h \in UNION { [1..n -> ScoredPoints] : n \in 0..MaxHits } :
        \A i \in 1..Len(h), j \in 1..Len(h) :
            i < j => /\ h[i].score >= h[j].score
                     /\ h[i].payload # h[j].payload }

Take(s, n) == IF Len(s) <= n THEN s ELSE SubSeq(s, 1, n)

\* AsyncQdrantClient.search(query_vector, limit, score_threshold): the points
\* whose score reaches the threshold, best first, at most limit of them
QdrantSearch(points, limit, score_threshold) ==
    LET Reaches(p) == p.score >= score_threshold
    IN  Take(SelectSeq(points, Reaches), limit)

\* the same call without score_threshold
search_call_no_threshold(points) == QdrantSearch(points, SEARCH_LIMIT, 0)

\* the call in resolve: limit=5, score_threshold=settings.COSINE_THRESHOLD
search_call(points) == QdrantSearch(points, SEARCH_LIMIT, COSINE_THRESHOLD)

\* get_last_seen with an age of exactly the TTL still returned
get_last_seen_inclusive(reg, customer_id, time_now) ==
    IF customer_id \in DOMAIN reg /\ (time_now - reg[customer_id].last_seen_ts) <= REGISTRY_TTL
    THEN <<reg[customer_id]>>
    ELSE <<>>

\* ActiveIdentityRegistry.get_last_seen
get_last_seen(reg, customer_id, time_now) ==
    IF customer_id \in DOMAIN reg /\ (time_now - reg[customer_id].last_seen_ts) < REGISTRY_TTL
    THEN <<reg[customer_id]>>
    ELSE <<>>

\* record that keeps no other entry
record_alone(reg, customer_id, camera_id, ts, embedding) ==
    [k \in {customer_id} |->
        [camera_id |-> camera_id, last_seen_ts |-> ts, embedding |-> embedding]]

\* record that keeps the stored sighting when it is the later one in event time
record_event_time(reg, customer_id, camera_id, ts, embedding) ==
    [k \in DOMAIN reg \cup {customer_id} |->
        IF k = customer_id /\ (k \notin DOMAIN reg \/ reg[k].last_seen_ts <= ts)
        THEN [camera_id |-> camera_id, last_seen_ts |-> ts, embedding |-> embedding]
        ELSE reg[k]]

\* ActiveIdentityRegistry.record
record(reg, customer_id, camera_id, ts, embedding) ==
    [k \in DOMAIN reg \cup {customer_id} |->
        IF k = customer_id
        THEN [camera_id |-> camera_id, last_seen_ts |-> ts, embedding |-> embedding]
        ELSE reg[k]]

\* evict_expired that deletes nothing
evict_expired_none(reg, time_now) ==
    [k \in DOMAIN reg |-> reg[k]]

\* ActiveIdentityRegistry.evict_expired
evict_expired(reg, time_now) ==
    LET cutoff  == time_now - REGISTRY_TTL
        expired == { k \in DOMAIN reg : reg[k].last_seen_ts < cutoff }
    IN  [k \in DOMAIN reg \ expired |-> reg[k]]

\* _unknown_result that leaves resolve_ts at 0
unknown_result_unstamped(ev, time_now) ==
    [camera_id    |-> DictGet(ev, "camera_id", "unknown"),
     camera_type  |-> DictGet(ev, "camera_type", "unknown"),
     track_id     |-> 0,
     customer_id  |-> None,
     confidence   |-> 0,
     match_method |-> "unknown",
     ingest_ts    |-> DictGet(ev, "ingest_ts", time_now),
     resolve_ts   |-> 0,
     bbox         |-> <<>>,
     embedding    |-> <<>>]

\* IdentityResolver._unknown_result
unknown_result(ev, time_now) ==
    [camera_id    |-> DictGet(ev, "camera_id", "unknown"),
     camera_type  |-> DictGet(ev, "camera_type", "unknown"),
     track_id     |-> 0,
     customer_id  |-> None,
     confidence   |-> 0,
     match_method |-> "unknown",
     ingest_ts    |-> DictGet(ev, "ingest_ts", time_now),
     resolve_ts   |-> time_now,
     bbox         |-> <<>>,
     embedding    |-> <<>>]

\* IdentityResolver._check_alert: <<>> is None
check_alert(res) ==
    IF ~Truthy(res.customer_id) /\ res.camera_type = "billing"
    THEN << [alert_type |-> "UNKNOWN_AT_BILLING", camera_id |-> res.camera_id,
             customer_id |-> None, severity |-> "MEDIUM", ts |-> res.resolve_ts,
             metadata |-> [track_id |-> res.track_id]] >>
    ELSE <<>>

\* the loop "for candidate in search_results" of resolve, from candidate i on
RECURSIVE gating_loop(_, _, _, _, _, _)
gating_loop(cands, i, camera_id, ingest_ts, reg, time_now) ==
    IF i > Len(cands)
    THEN [resolved_customer_id |-> None, match_confidence |-> 0, match_method |-> "unknown"]
    ELSE LET customer_id == DictGet(cands[i].payload, "customer_id", None)
             last_seen   == get_last_seen(reg, customer_id, time_now)
             gate_result == evaluate(customer_id, camera_id, ingest_ts, last_seen)
         IN  IF gate_result = ACCEPT
             THEN [resolved_customer_id |-> customer_id,
                   match_confidence |-> cands[i].score,
                   match_method |-> "qdrant_hnsw"]
             ELSE gating_loop(cands, i + 1, camera_id, ingest_ts, reg, time_now)

\* a ResolvedIdentity whose confidence is dropped to 0 for an event that is
\* REGISTRY_TTL old when it is resolved
build_resolved_stale(ev, m, time_now) ==
    [camera_id    |-> ev.camera_id,
     camera_type  |-> ev.camera_type,
     track_id     |-> DictGet(ev.detections[1], "track_id", 0),
     customer_id  |-> m.resolved_customer_id,
     confidence   |-> IF time_now - ev.ingest_ts >= REGISTRY_TTL THEN 0 ELSE m.match_confidence,
     match_method |-> IF Truthy(m.resolved_customer_id) THEN m.match_method ELSE "unknown",
     ingest_ts    |-> ev.ingest_ts,
     resolve_ts   |-> time_now,
     bbox         |-> DictGet(ev.detections[1], "bbox", <<>>),
     embedding    |-> ev.embeddings[1]]

\* resolve after the gallery has answered: the ResolvedIdentity it builds
build_resolved(ev, m, time_now) ==
    [camera_id    |-> ev.camera_id,
     camera_type  |-> ev.camera_type,
     track_id     |-> DictGet(ev.detections[1], "track_id", 0),
     customer_id  |-> m.resolved_customer_id,
     confidence   |-> m.match_confidence,
     match_method |-> IF Truthy(m.resolved_customer_id) THEN m.match_method ELSE "unknown",
     ingest_ts    |-> ev.ingest_ts,
     resolve_ts   |-> time_now,
     bbox         |-> DictGet(ev.detections[1], "bbox", <<>>),
     embedding    |-> ev.embeddings[1]]

(***************************************************************************)
(* The resolver's consume loop (main) and resolve                          *)
(***************************************************************************)
MaxEvents == 3

\* a topic is kept as the number of records sent to it; the record sent is
\* the value of resolved (or alert) in the state before the send
Send(topic, value) == topic + 1

\* the components that a run leaves out stay in these states
GateIdle == g_in = <<>> /\ g_out = "idle"
CallIdle == a_in = <<>> /\ a_ret = <<>>
ResolverIdle ==
    /\ r_pc = "off" /\ now = 0 /\ registry = EmptyDict /\ evict_counter = 0
    /\ event = <<>> /\ search_results = <<>> /\ resolved = <<>> /\ alert = <<>>
    /\ identities = 0 /\ alerts = 0 /\ consumed = 0

\* no sampler constructed
SamplerIdle ==
    base_interval = 0 /\ current_interval = 0 /\ s_count = 0 /\ prev_gray = FALSE

\* no camera task started
CameraIdle ==
    /\ rd_pc = "off" /\ delay = 0 /\ cap_opened = FALSE /\ captured = 0 /\ rd_frame = <<>>
    /\ reader_stop = FALSE /\ queue = <<>> /\ dropped = 0 /\ ingested = 0
    /\ stop_event = FALSE /\ p_pc = "off" /\ p_frame = <<>>
    /\ bus = <<>> /\ bus_delivered = 0

IngestorIdle == SamplerIdle /\ CameraIdle

WorkerIdle ==
    /\ streams = [c \in WCameras |-> <<>>]
    /\ last_delivered = [c \in WCameras |-> 0]
    /\ pel = {}
    /\ w_pc = "off"
    /\ consumer_id = 0
    /\ acc_batch = <<>> /\ acc_age = 0 /\ acc_wait = 0 /\ batch = <<>> /\ meta = <<>>
    /\ all_results = <<>> /\ produced = <<>>

\* a resolver that has handled EVICT_EVERY - 2 events, none of them matched;
\* identities, alerts and consumed count from this moment on
InitResolver ==
    /\ r_pc = "poll"
    /\ now = 0
    /\ registry = EmptyDict
    /\ evict_counter = EVICT_EVERY - 2
    /\ event = <<>>
    /\ search_results = <<>>
    /\ resolved = <<>>
    /\ alert = <<>>
    /\ identities = 0
    /\ alerts = 0
    /\ consumed = 0
    /\ GateIdle
    /\ WorkerIdle
    /\ CallIdle
    /\ IngestorIdle

\* time passes on the resolver's host
Tick ==
    /\ r_pc # "stopped"
    /\ \E t \in NowPoints : t > now /\ now' = t
    /\ UNCHANGED <<r_pc, registry, evict_counter, event, search_results,
                   resolved, alert, identities, alerts, consumed, gvars, ivars, avars, wvars>>

\* a consumer that hands the next message to a new task while resolve is
\* still awaiting the gallery
Consume_overlapping ==
    /\ r_pc \in {"poll", "search"}
    /\ consumed < MaxEvents
    /\ \E ev \in Events : event' = ev
    /\ consumed' = consumed + 1
    /\ r_pc' = "resolve"
    /\ search_results' = <<>>
    /\ resolved' = <<>>
    /\ alert' = <<>>
    /\ UNCHANGED <<now, registry, evict_counter, identities, alerts, gvars, ivars, avars, wvars>>

\* async for msg in consumer: event = msg.value
Consume ==
    /\ r_pc = "poll"
    /\ consumed < MaxEvents
    /\ \E ev \in Events : event' = ev
    /\ consumed' = consumed + 1
    /\ r_pc' = "resolve"
    /\ search_results' = <<>>
    /\ resolved' = <<>>
    /\ alert' = <<>>
    /\ UNCHANGED <<now, registry, evict_counter, identities, alerts, gvars, ivars, avars, wvars>>

\* resolve raises on its first lines (KeyError: no camera_id); main logs the
\* error and continues with the next message
ResolveRaises ==
    /\ r_pc = "resolve"
    /\ "camera_id" \notin DOMAIN event
    /\ r_pc' = "poll"
    /\ event' = <<>>
    /\ UNCHANGED <<now, registry, evict_counter, search_results, resolved,
                   alert, identities, alerts, consumed, gvars, ivars, avars, wvars>>

\* the early return with _check_alert applied to the unknown result
ResolveEmpty_alert ==
    /\ r_pc = "resolve"
    /\ "camera_id" \in DOMAIN event
    /\ (event.embeddings = <<>> \/ event.detections = <<>>)
    /\ resolved' = <<unknown_result(event, now)>>
    /\ alert' = check_alert(unknown_result(event, now))
    /\ r_pc' = "publish"
    /\ UNCHANGED <<now, registry, evict_counter, event, search_results,
                   identities, alerts, consumed, gvars, ivars, avars, wvars>>

\* resolve returns the unknown result at once: no embeddings or no detections
ResolveEmpty ==
    /\ r_pc = "resolve"
    /\ "camera_id" \in DOMAIN event
    /\ (event.embeddings = <<>> \/ event.detections = <<>>)
    /\ resolved' = <<unknown_result(event, now)>>
    /\ alert' = <<>>
    /\ r_pc' = "publish"
    /\ UNCHANGED <<now, registry, evict_counter, event, search_results,
                   identities, alerts, consumed, gvars, ivars, avars, wvars>>

\* resolve reaches "await self.qdrant.search(...)"
ResolveQuery ==
    /\ r_pc = "resolve"
    /\ "camera_id" \in DOMAIN event
    /\ event.embeddings # <<>> /\ event.detections # <<>>
    /\ r_pc' = "search"
    /\ UNCHANGED <<now, registry, evict_counter, event, search_results, resolved,
                   alert, identities, alerts, consumed, gvars, ivars, avars, wvars>>

\* the gallery answers; gating, record and the result follow without suspension
SearchReturns ==
    /\ r_pc = "search"
    /\ \E points \in HitLists :
         LET results == search_call(points)
             m       == gating_loop(results, 1, event.camera_id, event.ingest_ts,
                                    registry, now)
             res     == build_resolved(event, m, now)
         IN  /\ search_results' = <<results>>
             /\ registry' = IF Truthy(m.resolved_customer_id)
                            THEN record(registry, m.resolved_customer_id, event.camera_id,
                                        event.ingest_ts, event.embeddings[1])
                            ELSE registry
             /\ resolved' = <<res>>
             /\ alert' = check_alert(res)
    /\ r_pc' = "publish"
    /\ UNCHANGED <<now, evict_counter, event, identities, alerts, consumed, gvars, ivars, avars, wvars>>

\* the gallery query raises and resolve lets the exception out to main
SearchFails_raises ==
    /\ r_pc = "search"
    /\ r_pc' = "poll"
    /\ event' = <<>>
    /\ UNCHANGED <<now, registry, evict_counter, search_results, resolved,
                   alert, identities, alerts, consumed, gvars, ivars, avars, wvars>>

\* the gallery query raises: resolve returns the unknown result, no alert
SearchFails ==
    /\ r_pc = "search"
    /\ resolved' = <<unknown_result(event, now)>>
    /\ alert' = <<>>
    /\ r_pc' = "publish"
    /\ UNCHANGED <<now, registry, evict_counter, event, search_results,
                   identities, alerts, consumed, gvars, ivars, avars, wvars>>

\* the end of one iteration of the loop: count the event, sweep every 1000th;
\* the iteration's locals go out of use
EndOfIteration ==
    /\ event' = <<>> /\ search_results' = <<>> /\ resolved' = <<>> /\ alert' = <<>>
    /\ evict_counter' = evict_counter + 1
    /\ registry' = IF (evict_counter + 1) % EVICT_EVERY = 0
                   THEN evict_expired(registry, now)
                   ELSE registry
    /\ r_pc' = "poll"

\* producer.send_and_wait("trinetra.identities", ...) succeeds
PublishIdentity ==
    /\ r_pc = "publish"
    /\ identities' = Send(identities, resolved[1])
    /\ IF alert # <<>>
       THEN /\ r_pc' = "publish_alert"
            /\ UNCHANGED <<registry, evict_counter, event, search_results, resolved, alert>>
       ELSE EndOfIteration
    /\ UNCHANGED <<now, alerts, consumed, gvars, ivars, avars, wvars>>

\* producer.send_and_wait("trinetra.alerts", ...) succeeds
PublishAlert ==
    /\ r_pc = "publish_alert"
    /\ alerts' = Send(alerts, alert[1])
    /\ EndOfIteration
    /\ UNCHANGED <<now, identities, consumed, gvars, ivars, avars, wvars>>

\* send_and_wait raises: the exception leaves the loop, finally stops the clients
PublishRaises ==
    /\ r_pc \in {"publish", "publish_alert"}
    /\ r_pc' = "stopped"
    /\ UNCHANGED <<now, registry, evict_counter, event, search_results, resolved,
                   alert, identities, alerts, consumed, gvars, ivars, avars, wvars>>

NextResolver ==
    \/ Tick
    \/ Consume
    \/ ResolveRaises
    \/ ResolveEmpty
    \/ ResolveQuery
    \/ SearchReturns
    \/ SearchFails
    \/ PublishIdentity
    \/ PublishAlert
    \/ PublishRaises

(***************************************************************************)
(* inference_worker/main.py and config.py; the Frame Bus (Redis Streams)   *)
(* and the Event Bus producer (librdkafka) as the worker uses them         *)
(***************************************************************************)
\* settings.BATCH_SIZE comes from the environment (default 4); the worker is
\* run here with a smaller batch size
BATCH_SIZE == 2
BATCH_TIMEOUT_MS == 20
READ_BLOCK_MS == 50

MaxEntries == 3      \* entries the ingestors append in one run
MaxKills == 1        \* times the worker process is killed and restarted

StreamKey(cam) == <<"frames", cam>>

\* what the frame bytes of an entry decode to
FrameKinds == {"jpeg", "corrupt"}

\* boxes in pixels of a 2x2 frame, [x1, y1, x2, y2] after int(c * dim)
BoxFace == <<0, 0, 2, 2>>
BoxThin == <<1, 0, 1, 2>>
\* what the detector may return for one frame
DetChoices == { <<>>, <<[track_id |-> 0, bbox |-> BoxFace, confidence |-> 90, class_id |-> 0]>>,
                <<[track_id |-> 0, bbox |-> BoxThin, confidence |-> 90, class_id |-> 0],
                  [track_id |-> 0, bbox |-> BoxFace, confidence |-> 80, class_id |-> 0]>> }

Min(a, b) == IF a <= b THEN a ELSE b
Max(a, b) == IF a >= b THEN a ELSE b

\* crop = frame[y1:y2, x1:x2]; crop.size
CropSize(bbox) == Max(0, bbox[4] - bbox[2]) * Max(0, bbox[3] - bbox[1])

\* the embedding ArcFace computes for the crop of a box
Embedding(bbox) == <<"emb", bbox>>

\* _process_batch lines 294-306: the crops with positive size, embedded in order
RECURSIVE frame_embeddings(_)
frame_embeddings(detections) ==
    IF detections = <<>> THEN <<>>
    ELSE LET det  == Head(detections)
             rest == frame_embeddings(Tail(detections))
         IN  IF CropSize(det.bbox) > 0 THEN <<Embedding(det.bbox)>> \o rest ELSE rest

\* embedder.py: the sub-batch size of embed_batch and the embedding dimension
MAX_SUB_BATCH == 16
EMBEDDING_DIM == 512

\* np.zeros(EMBEDDING_DIM)
ZeroVector == <<"zeros", EMBEDDING_DIM>>

\* the number of sub-batches embed_batch cuts n crops into
SubBatches(n) == (n + MAX_SUB_BATCH - 1) \div MAX_SUB_BATCH

\* the loop of embed_batch from crop i on; fates[k] tells whether the
\* inference of the k-th sub-batch returns (TRUE) or raises (FALSE)
RECURSIVE embed_from(_, _, _)
embed_from(face_crops, i, fates) ==
    IF i > Len(face_crops) THEN <<>>
    ELSE LET sub_batch == SubSeq(face_crops, i, Min(i + MAX_SUB_BATCH - 1, Len(face_crops)))
             k         == ((i - 1) \div MAX_SUB_BATCH) + 1
             part      == IF fates[k]
                          THEN [j \in 1..Len(sub_batch) |-> Embedding(sub_batch[j])]
                          ELSE [j \in 1..Len(sub_batch) |-> ZeroVector]
         IN  part \o embed_from(face_crops, i + MAX_SUB_BATCH, fates)

\* embed_batch that gives up the whole batch when a sub-batch fails
embed_batch_abort(face_crops, fates) ==
    IF face_crops = <<>> THEN <<>>
    ELSE IF \E k \in DOMAIN fates : ~fates[k] THEN <<>>
    ELSE embed_from(face_crops, 1, fates)

\* ArcFaceEmbedder.embed_batch
embed_batch(face_crops, fates) ==
    IF face_crops = <<>> THEN <<>> ELSE embed_from(face_crops, 1, fates)

\* _l2_normalize: the L2 norm, in millionths, of a row of raw / (norm + 1e-8)
\* whose raw norm is given in units of 1e-8
l2_normalized_norm(raw_norm) ==
    1000000 - ((1000000 + raw_norm) \div (raw_norm + 1))

\* the L2 norm of ArcFace's raw output for a crop, in units of 1e-8 (about 20)
RawNorm == 2000000000

\* the L2 norm, in millionths, of an embedding that embed_batch returned
L2Norm(embedding) ==
    IF embedding[1] = ZeroVector[1] THEN 0 ELSE l2_normalized_norm(RawNorm)

\* _process_batch lines 294-299: the crops with positive size, in order
RECURSIVE face_crops_of(_)
face_crops_of(detections) ==
    IF detections = <<>> THEN <<>>
    ELSE LET det  == Head(detections)
             rest == face_crops_of(Tail(detections))
         IN  IF CropSize(det.bbox) > 0 THEN <<det.bbox>> \o rest ELSE rest

\* the InferenceResult with ingest_ts left at the default of msg.get("ingest_ts", 0)
inference_result_default_ts(msg, detections) ==
    [camera_id   |-> msg.camera_id,
     camera_type |-> msg.camera_type,
     ingest_ts   |-> 0,
     detections  |-> detections,
     embeddings  |-> frame_embeddings(detections)]

\* _process_batch lines 308-315: the InferenceResult of one decoded frame
inference_result(msg, detections) ==
    [camera_id   |-> msg.camera_id,
     camera_type |-> msg.camera_type,
     ingest_ts   |-> msg.ingest_ts,
     detections  |-> detections,
     embeddings  |-> frame_embeddings(detections)]

\* is_ready with both comparisons strict
is_ready_strict(pending, age) == Len(pending) > BATCH_SIZE \/ age > BATCH_TIMEOUT_MS

\* MicroBatchAccumulator.is_ready
is_ready(pending, age) == Len(pending) >= BATCH_SIZE \/ age >= BATCH_TIMEOUT_MS

\* a read that returns the new entries of a stream newest first
xreadgroup_newest_first(cam, count) ==
    LET first == last_delivered[cam] + 1
        last  == Min(Len(streams[cam]), last_delivered[cam] + count)
    IN  [i \in 1..(last - first + 1) |->
            [camera_id   |-> streams[cam][last - i + 1].camera_id,
             camera_type |-> streams[cam][last - i + 1].camera_type,
             ingest_ts   |-> streams[cam][last - i + 1].ingest_ts,
             frame       |-> streams[cam][last - i + 1].frame,
             stream_key  |-> StreamKey(cam),
             msg_id      |-> last - i + 1]]

\* XREADGROUP ... {stream: ">"} COUNT count: per stream, the entries after the
\* group's last-delivered id, at most count of them
xreadgroup(cam, count) ==
    LET first == last_delivered[cam] + 1
        last  == Min(Len(streams[cam]), last_delivered[cam] + count)
    IN  [i \in 1..(last - first + 1) |->
            [camera_id   |-> streams[cam][first + i - 1].camera_id,
             camera_type |-> streams[cam][first + i - 1].camera_type,
             ingest_ts   |-> streams[cam][first + i - 1].ingest_ts,
             frame       |-> streams[cam][first + i - 1].frame,
             stream_key  |-> StreamKey(cam),
             msg_id      |-> first + i - 1]]

\* the responses of one XREADGROUP over all streams, in stream order
AllResponses(count) ==
    xreadgroup("cam_entrance_01", count) \o xreadgroup("cam_billing_01", count)

SeqToSet(q) == { q[i] : i \in 1..Len(q) }
PelEntry(msg, consumer) == [stream_key |-> msg.stream_key, msg_id |-> msg.msg_id,
                            consumer |-> consumer]
\* XACK stream group id
xack(p, msgs) == { e \in p : \A m \in msgs :
                       ~(e.stream_key = m.stream_key /\ e.msg_id = m.msg_id) }

TotalEntries == Len(streams["cam_entrance_01"]) + Len(streams["cam_billing_01"])

InitWorker ==
    /\ streams = [c \in WCameras |-> <<>>]
    /\ last_delivered = [c \in WCameras |-> 0]
    /\ pel = {}
    /\ w_pc = "read"
    /\ consumer_id = 1
    /\ acc_batch = <<>>
    /\ acc_age = 0
    /\ acc_wait = 0
    /\ batch = <<>>
    /\ meta = <<>>
    /\ all_results = <<>>
    /\ produced = <<>>
    /\ GateIdle
    /\ ResolverIdle
    /\ CallIdle
    /\ IngestorIdle

\* an ingestor appends a frame to its camera's stream (XADD); ingest_ts is the
\* time of the append, one tick per entry
XAdd ==
    /\ TotalEntries < MaxEntries
    /\ \E cam \in WCameras, kind \in FrameKinds :
         streams' = [streams EXCEPT ![cam] =
                        Append(@, [camera_id |-> cam, camera_type |-> CameraType(cam),
                                   ingest_ts |-> TotalEntries + 1, frame |-> kind])]
    /\ UNCHANGED <<last_delivered, pel, w_pc, consumer_id, acc_batch, acc_age, acc_wait,
                   batch, meta, all_results, produced,
                   gvars, ivars, avars, rvars>>

\* one turn of the loop of run_inference_worker: XREADGROUP (which blocks for
\* 50 ms when no stream has a new entry), add every message to the accumulator,
\* then flush into _process_batch when the accumulator is ready
WorkerRead ==
    /\ w_pc = "read"
    /\ LET responses == AllResponses(BATCH_SIZE)
           waited    == IF responses = <<>> THEN READ_BLOCK_MS ELSE 0
           pending   == acc_batch \o responses
           age       == acc_age + waited
           wait      == IF acc_batch # <<>> THEN acc_wait + waited ELSE 0
       IN  /\ last_delivered' = [c \in WCameras |->
                                   Min(Len(streams[c]), last_delivered[c] + BATCH_SIZE)]
           /\ pel' = pel \cup { PelEntry(responses[i], consumer_id) :
                                   i \in 1..Len(responses) }
           /\ IF is_ready(pending, age)
              THEN /\ batch' = pending
                   /\ acc_batch' = <<>>
                   /\ acc_age' = 0
                   /\ w_pc' = IF pending = <<>> THEN "read" ELSE "decode"
              ELSE /\ batch' = <<>>
                   /\ acc_batch' = pending
                   /\ acc_age' = age
                   /\ w_pc' = "read"
           /\ acc_wait' = wait
    /\ UNCHANGED <<streams, consumer_id, meta, all_results, produced, gvars, ivars, avars, rvars>>

\* time passes between two turns of the loop
WorkerDelay ==
    /\ w_pc = "read"
    /\ acc_age < BATCH_TIMEOUT_MS
    /\ acc_age' = acc_age + 10
    /\ acc_wait' = IF acc_batch # <<>> THEN acc_wait + 10 ELSE 0
    /\ UNCHANGED <<streams, last_delivered, pel, w_pc, consumer_id, acc_batch, batch,
                   meta, all_results, produced,
                   gvars, ivars, avars, rvars>>

Decodes(msg) == msg.frame = "jpeg"

\* what self._engine.run and _postprocess do for n frames: <<>> when one of
\* them raises, else <<the detection lists, one per frame>>
EngineRuns(n) == { <<>> } \cup { <<d>> : d \in [1..n -> DetChoices] }

\* detect_batch that answers an inference error with one empty list
detect_batch_flat(frames, run) ==
    IF frames = <<>> THEN <<>>
    ELSE IF run = <<>>
         THEN <<>>
         ELSE [i \in 1..Len(frames) |-> run[1][i]]

\* YOLOv8Detector.detect_batch
detect_batch(frames, run) ==
    IF frames = <<>> THEN <<>>
    ELSE IF run = <<>>
         THEN [i \in 1..Len(frames) |-> <<>>]
         ELSE [i \in 1..Len(frames) |-> run[1][i]]

\* _process_batch lines 270-319 with the given fate of the detector's
\* inference: decode, ack and skip the corrupted entries, detect on the decoded
\* frames, crop, embed and build the results (zip stops at the shortest list)
ProcessDecodeOn(run) ==
    /\ w_pc = "decode"
    /\ LET decoded   == SelectSeq(batch, Decodes)
           corrupted == { m \in SeqToSet(batch) : ~Decodes(m) }
       IN  /\ pel' = xack(pel, corrupted)
           /\ meta' = decoded
           /\ IF decoded = <<>>
              THEN /\ all_results' = <<>>
                   /\ batch' = <<>>
                   /\ w_pc' = "read"
              ELSE /\ LET batch_detections == detect_batch(decoded, run)
                      IN  all_results' =
                              [i \in 1..Min(Len(decoded), Len(batch_detections)) |->
                                  inference_result(decoded[i], batch_detections[i])]
                   /\ batch' = batch
                   /\ w_pc' = "publish"
    /\ acc_wait' = 0
    /\ UNCHANGED <<streams, last_delivered, consumer_id, acc_batch, acc_age,
                   produced, gvars, ivars, avars, rvars>>

\* _process_batch lines 270-319 when the embedder's inference may raise too:
\* ok[i] tells whether it returns for the crops of the i-th decoded frame
\* (a frame has at most two crops here, hence one sub-batch)
ProcessDecodeEmbed ==
    /\ w_pc = "decode"
    /\ LET decoded   == SelectSeq(batch, Decodes)
           corrupted == { m \in SeqToSet(batch) : ~Decodes(m) }
       IN  /\ pel' = xack(pel, corrupted)
           /\ meta' = decoded
           /\ IF decoded = <<>>
              THEN /\ all_results' = <<>>
                   /\ batch' = <<>>
                   /\ w_pc' = "read"
              ELSE /\ \E run \in EngineRuns(Len(decoded)), ok \in [1..Len(decoded) -> BOOLEAN] :
                        LET batch_detections == detect_batch(decoded, run)
                        IN  all_results' =
                              [i \in 1..Min(Len(decoded), Len(batch_detections)) |->
                                 [inference_result(decoded[i], batch_detections[i])
                                    EXCEPT !.embeddings =
                                      LET crops == face_crops_of(batch_detections[i])
                                      IN  embed_batch(crops,
                                             [k \in 1..SubBatches(Len(crops)) |-> ok[i]])]]
                   /\ batch' = batch
                   /\ w_pc' = "publish"
    /\ acc_wait' = 0
    /\ UNCHANGED <<streams, last_delivered, consumer_id, acc_batch, acc_age,
                   produced, gvars, ivars, avars, rvars>>

\* _process_batch lines 270-319, whatever the detector's inference does
ProcessDecode ==
    \E run \in EngineRuns(Len(SelectSeq(batch, Decodes))) : ProcessDecodeOn(run)

\* the same when the detector's inference raises
ProcessDecodeRaising == ProcessDecodeOn(<<>>)

\* _process_batch lines 321-334: produce every result, then poll(0); poll
\* serves the delivery reports that have arrived, and kafka_delivery_callback
\* only logs and counts a failed one
ProcessPublish ==
    /\ w_pc = "publish"
    /\ produced' = produced \o [i \in 1..Len(all_results) |->
                                   [value |-> all_results[i], status |-> "queued"]]
    /\ w_pc' = "ack"
    /\ UNCHANGED <<streams, last_delivered, pel, consumer_id, acc_batch, acc_age, acc_wait,
                   batch, meta, all_results, gvars, ivars, avars, rvars>>

\* _process_batch lines 336-338: ack every message that decoded
ProcessAck ==
    /\ w_pc = "ack"
    /\ pel' = xack(pel, SeqToSet(meta))
    /\ w_pc' = "read"
    /\ batch' = <<>> /\ meta' = <<>> /\ all_results' = <<>>
    /\ UNCHANGED <<streams, last_delivered, consumer_id, acc_batch, acc_age, acc_wait,
                   produced, gvars, ivars, avars, rvars>>

\* the oldest queued message of the producer
FirstQueued == CHOOSE i \in 1..Len(produced) :
                  /\ produced[i].status = "queued"
                  /\ \A j \in 1..(i - 1) : produced[j].status # "queued"
HasQueued == \E i \in 1..Len(produced) : produced[i].status = "queued"

\* the broker's leader acknowledges the oldest queued message
KafkaDelivers ==
    /\ w_pc \notin {"dead", "off"}
    /\ HasQueued
    /\ produced' = [produced EXCEPT ![FirstQueued].status = "delivered"]
    /\ UNCHANGED <<streams, last_delivered, pel, w_pc, consumer_id, acc_batch, acc_age,
                   acc_wait, batch, meta, all_results, gvars, ivars, avars, rvars>>

\* delivery of the oldest queued message fails for good (retries exhausted)
KafkaFails ==
    /\ w_pc \notin {"dead", "off"}
    /\ HasQueued
    /\ produced' = [produced EXCEPT ![FirstQueued].status = "failed"]
    /\ UNCHANGED <<streams, last_delivered, pel, w_pc, consumer_id, acc_batch, acc_age,
                   acc_wait, batch, meta, all_results, gvars, ivars, avars, rvars>>

\* the worker process is killed: its memory is lost, and with it the
\* accumulator, the batch in progress and the producer's queue
Kill ==
    /\ w_pc \notin {"dead", "off"}
    /\ consumer_id <= MaxKills
    /\ w_pc' = "dead"
    /\ acc_batch' = <<>> /\ acc_age' = 0 /\ acc_wait' = 0
    /\ batch' = <<>> /\ meta' = <<>> /\ all_results' = <<>>
    /\ produced' = [i \in 1..Len(produced) |->
                       IF produced[i].status = "queued"
                       THEN [produced[i] EXCEPT !.status = "failed"]
                       ELSE produced[i]]
    /\ UNCHANGED <<streams, last_delivered, pel, consumer_id, gvars, ivars, avars, rvars>>

\* a worker is started again in the same consumer group (xgroup_create answers
\* BUSYGROUP); consumer_id counts the processes started, and the read with ">"
\* does not depend on the consumer's name
Restart ==
    /\ w_pc = "dead"
    /\ w_pc' = "read"
    /\ consumer_id' = consumer_id + 1
    /\ UNCHANGED <<streams, last_delivered, pel, acc_batch, acc_age, acc_wait, batch, meta,
                   all_results, produced, gvars, ivars, avars, rvars>>

\* the worker in operation
NextWorker ==
    \/ XAdd
    \/ WorkerRead
    \/ WorkerDelay
    \/ ProcessDecode
    \/ ProcessPublish
    \/ ProcessAck
    \/ KafkaDelivers
    \/ KafkaFails

\* the worker in operation, killed and restarted
NextRecovery ==
    \/ XAdd
    \/ WorkerRead
    \/ WorkerDelay
    \/ ProcessDecode
    \/ ProcessPublish
    \/ ProcessAck
    \/ KafkaDelivers
    \/ KafkaFails
    \/ Kill
    \/ Restart

\* the worker in operation with a detector whose inference raises every time
NextFailOpen ==
    \/ XAdd
    \/ WorkerRead
    \/ WorkerDelay
    \/ ProcessDecodeRaising
    \/ ProcessPublish
    \/ ProcessAck
    \/ KafkaDelivers
    \/ KafkaFails

\* the worker in operation, the embedder's inference failing at times
NextEmbedFail ==
    \/ XAdd
    \/ WorkerRead
    \/ WorkerDelay
    \/ ProcessDecodeEmbed
    \/ ProcessPublish
    \/ ProcessAck
    \/ KafkaDelivers
    \/ KafkaFails

(***************************************************************************)
(* MicroBatchAccumulator on its own: add, is_ready and flush called in any *)
(* order while time passes                                                 *)
(***************************************************************************)
MaxAge == 30          \* ms of perf_counter time followed after a batch start
AccMessages == {1, 2} \* the frame messages handed to add

\* MicroBatchAccumulator.add: the batch after the append
add(pending, message) == Append(pending, message)
\* MicroBatchAccumulator.flush: the copy it returns
flush(pending) == pending

InitAccumulator ==
    /\ a_in = <<>>
    /\ a_ret = <<>>
    /\ GateIdle
    /\ ResolverIdle
    /\ WorkerIdle
    /\ IngestorIdle

\* accumulator.add(message): append, then return is_ready()
AccAdd ==
    /\ Len(acc_batch) <= BATCH_SIZE
    /\ \E m \in AccMessages :
         /\ acc_batch' = add(acc_batch, m)
         /\ a_in' = <<m>>
         /\ a_ret' = <<"add", is_ready(add(acc_batch, m), acc_age)>>
    /\ UNCHANGED <<streams, last_delivered, pel, w_pc, consumer_id, acc_age, acc_wait,
                   batch, meta, all_results, produced, gvars, ivars, rvars>>

\* accumulator.is_ready()
AccIsReady ==
    /\ a_in' = <<>>
    /\ a_ret' = <<"is_ready", is_ready(acc_batch, acc_age)>>
    /\ UNCHANGED <<wvars, gvars, ivars, rvars>>

\* accumulator.flush(): copy, clear, restart the timer, return the copy
AccFlush ==
    /\ a_in' = <<>>
    /\ a_ret' = <<"flush", flush(acc_batch)>>
    /\ acc_batch' = <<>>
    /\ acc_age' = 0
    /\ UNCHANGED <<streams, last_delivered, pel, w_pc, consumer_id, acc_wait,
                   batch, meta, all_results, produced, gvars, ivars, rvars>>

\* perf_counter advances between two calls
AccElapse ==
    /\ acc_age < MaxAge
    /\ acc_age' = acc_age + 10
    /\ a_in' = <<>>
    /\ a_ret' = <<>>
    /\ UNCHANGED <<streams, last_delivered, pel, w_pc, consumer_id, acc_batch, acc_wait,
                   batch, meta, all_results, produced, gvars, ivars, rvars>>

NextAccumulator ==
    \/ AccAdd
    \/ AccIsReady
    \/ AccFlush
    \/ AccElapse

SpecAccumulator == InitAccumulator /\ [][NextAccumulator]_vars

(***************************************************************************)
(* ArcFaceEmbedder.embed_batch called on its own                           *)
(***************************************************************************)
MaxCrops == 34        \* face crops handed to one call

\* a_in is <<face_crops, fates of the sub-batches>>; crop i is the number i
InitEmbedder ==
    /\ \E n \in 0..MaxCrops :
         a_in \in { <<[i \in 1..n |-> i], fates>> : fates \in [1..SubBatches(n) -> BOOLEAN] }
    /\ a_ret = <<>>
    /\ GateIdle
    /\ ResolverIdle
    /\ WorkerIdle
    /\ IngestorIdle

\* embedder.embed_batch(face_crops)
CallEmbedBatch ==
    /\ a_ret = <<>>
    /\ a_ret' = <<"embed_batch", embed_batch(a_in[1], a_in[2])>>
    /\ UNCHANGED <<a_in, gvars, ivars, rvars, wvars>>

NextEmbedder == CallEmbedBatch

SpecEmbedder == InitEmbedder /\ [][NextEmbedder]_vars

(***************************************************************************)
(* ActiveIdentityRegistry.get_last_seen called on its own                  *)
(***************************************************************************)
\* last_seen_ts samples and wall-clock samples around the TTL
RegTimes == {0, 20, 3600}
RegNow == {0, 3599, 3600, 3601, 3620, 7200}
\* registries as record leaves them: no entry, one entry, two entries
RegistrySamples ==
    { EmptyDict } \cup
    { record(EmptyDict, "alice", c, t, E1) : c \in Cameras, t \in RegTimes } \cup
    { record(record(EmptyDict, "bob", "cam_billing_01", 0, E1), "alice", c, t, E1) :
        c \in Cameras, t \in RegTimes }

InitRegistry ==
    /\ registry \in RegistrySamples
    /\ now \in RegNow
    /\ a_in \in { <<c>> : c \in Customers }
    /\ a_ret = <<>>
    /\ r_pc = "off" /\ evict_counter = 0
    /\ event = <<>> /\ search_results = <<>> /\ resolved = <<>> /\ alert = <<>>
    /\ identities = 0 /\ alerts = 0 /\ consumed = 0
    /\ GateIdle
    /\ WorkerIdle
    /\ IngestorIdle

\* registry.get_last_seen(customer_id)
CallGetLastSeen ==
    /\ a_ret = <<>>
    /\ a_ret' = <<"get_last_seen", get_last_seen(registry, a_in[1], now)>>
    /\ UNCHANGED <<a_in, rvars, gvars, ivars, wvars>>

NextRegistry == CallGetLastSeen

SpecRegistry == InitRegistry /\ [][NextRegistry]_vars

(***************************************************************************)
(* IdentityResolver.resolve run twice on one event and one gallery answer  *)
(***************************************************************************)
MaxRuns == 2

\* a_in is <<event, points near the query>>; a_ret collects the
\* ResolvedIdentity of each run
InitRerun ==
    /\ a_in \in { <<ev, points>> : ev \in WellFormedEvents, points \in HitLists }
    /\ a_ret = <<>>
    /\ ResolverIdle
    /\ GateIdle
    /\ WorkerIdle
    /\ IngestorIdle

\* resolver.resolve(event) on an empty registry
RerunResolve ==
    /\ Len(a_ret) < MaxRuns
    /\ registry = EmptyDict
    /\ LET ev == a_in[1]
       IN  IF ev.embeddings = <<>> \/ ev.detections = <<>>
           THEN /\ a_ret' = Append(a_ret, unknown_result(ev, now))
                /\ registry' = registry
           ELSE LET results == search_call(a_in[2])
                    m       == gating_loop(results, 1, ev.camera_id, ev.ingest_ts,
                                           registry, now)
                IN  /\ a_ret' = Append(a_ret, build_resolved(ev, m, now))
                    /\ registry' = IF Truthy(m.resolved_customer_id)
                                   THEN record(registry, m.resolved_customer_id,
                                               ev.camera_id, ev.ingest_ts, ev.embeddings[1])
                                   ELSE registry
    /\ UNCHANGED <<a_in, r_pc, now, evict_counter, event, search_results, resolved,
                   alert, identities, alerts, consumed, gvars, ivars, wvars>>

\* a new ActiveIdentityRegistry takes the place of the used one
RerunClear ==
    /\ registry # EmptyDict
    /\ registry' = EmptyDict
    /\ UNCHANGED <<a_in, a_ret, r_pc, now, evict_counter, event, search_results,
                   resolved, alert, identities, alerts, consumed, gvars, ivars, wvars>>

NextRerun == RerunResolve \/ RerunClear \/ Tick

SpecRerun == InitRerun /\ [][NextRerun]_vars

(***************************************************************************)
(* stream_ingestor/main.py: AdaptiveFrameSampler                           *)
(*                                                                         *)
(* The optical-flow magnitude is kept in tenths (2.5 is 25). fill_pct is   *)
(* (stream_len / FRAME_BUFFER_MAXLEN) * 100 in floats; with the cap at 100 *)
(* the float result is above 80 exactly when stream_len is above 80.       *)
(***************************************************************************)
FRAME_BUFFER_MAXLEN == 100
HIGH_WATER_MARK == 80
MOTION_THRESHOLD == 25
CAPTURE_FPS == 30

\* CameraConfig.target_fps of the cameras
TargetFps == {10, 15, 30, 60}
\* fill percentages around the high-water mark, flow magnitudes around the
\* motion threshold
FillPcts == {0, 79, 80, 81, 100}
Flows == {0, 25, 26}

\* base_interval without the floor of 1
sampler_base_unfloored(capture_fps, target_fps) == capture_fps \div target_fps

\* AdaptiveFrameSampler.__init__: base_interval
sampler_base(capture_fps, target_fps) == Max(1, capture_fps \div target_fps)

\* push_frames_to_redis: fill_pct
fill_pct_of(stream_len) == (stream_len * 100) \div FRAME_BUFFER_MAXLEN

\* AdaptiveFrameSampler._compute_motion: 0.0 on the first frame it sees
compute_motion(has_prev, flow) == IF has_prev THEN flow ELSE 0

\* the interval with the high-water mark itself taken as backpressure
next_interval_inclusive(interval, base, stream_fill_pct, motion) ==
    IF stream_fill_pct >= HIGH_WATER_MARK
    THEN Min(interval + 1, base * 3)
    ELSE IF motion > MOTION_THRESHOLD
         THEN Max(1, interval - 1)
         ELSE base

\* should_forward: the new current_interval
next_interval(interval, base, stream_fill_pct, motion) ==
    IF stream_fill_pct > HIGH_WATER_MARK
    THEN Min(interval + 1, base * 3)
    ELSE IF motion > MOTION_THRESHOLD
         THEN Max(1, interval - 1)
         ELSE base

\* AdaptiveFrameSampler.should_forward as a step of the sampler; flow is what
\* the optical flow against _prev_gray would give
should_forward(stream_fill_pct, flow) ==
    /\ s_count' = s_count + 1
    /\ current_interval' = next_interval(current_interval, base_interval, stream_fill_pct,
                                         compute_motion(prev_gray, flow))
    /\ prev_gray' = IF stream_fill_pct > HIGH_WATER_MARK THEN prev_gray ELSE TRUE
    /\ base_interval' = base_interval

\* what that call of should_forward returns
forwarded == s_count' % current_interval' = 0

(***************************************************************************)
(* AdaptiveFrameSampler on its own: should_forward called again and again  *)
(***************************************************************************)
MaxCalls == 6

InitSampler ==
    /\ \E fps \in TargetFps :
         /\ base_interval = sampler_base(CAPTURE_FPS, fps)
         /\ current_interval = sampler_base(CAPTURE_FPS, fps)
    /\ s_count = 0
    /\ prev_gray = FALSE
    /\ a_in = <<>>
    /\ a_ret = <<>>
    /\ CameraIdle
    /\ GateIdle
    /\ ResolverIdle
    /\ WorkerIdle

\* sampler.should_forward(frame, fill_pct); a_in keeps fill_pct and the motion
\* that _compute_motion returned (0 when it was not called)
SamplerCall ==
    /\ s_count < MaxCalls
    /\ \E f \in FillPcts, flow \in Flows :
         /\ should_forward(f, flow)
         /\ a_in' = <<f, IF f > HIGH_WATER_MARK THEN 0 ELSE compute_motion(prev_gray, flow)>>
    /\ a_ret' = <<"should_forward", forwarded>>
    /\ UNCHANGED <<pvars, gvars, rvars, wvars>>

NextSampler == SamplerCall

SpecSampler == InitSampler /\ [][NextSampler]_vars

(***************************************************************************)
(* stream_ingestor/main.py: one camera's reader thread, its in-process     *)
(* queue, its publisher task, the camera's Frame Bus stream, and shutdown. *)
(*                                                                         *)
(* A frame is the number cap.read() returned it as: 1, 2, ... from the     *)
(* moment the run is followed; frames captured before that moment have     *)
(* numbers <= 0. The reader runs in a thread of the default executor, the  *)
(* publisher on the event loop: their steps interleave freely.             *)
(***************************************************************************)
RECONNECT_CEILING_S == 30
MaxFrames == 3        \* frames the camera delivers in one run
MaxOver == 1          \* entries an approximate trim may leave above the cap

\* target_fps of the camera that is followed
IngestorFps == {15, 30}
\* entries the stream holds when the ingestor starts (left by an earlier run)
BusStarts == {0, 79, 80, 100}
\* frames waiting in the queue when the run starts to be followed: none, or 99
\* behind a publisher whose first xlen has not returned yet
QueueStarts == {0, 99}

\* a get_nowait that takes the newest item
get_nowait_newest(q) == SubSeq(q, 1, Len(q) - 1)

\* asyncio.Queue.full, get_nowait, put_nowait
full(q) == Len(q) >= FRAME_BUFFER_MAXLEN
get_nowait(q) == Tail(q)
put_nowait(q, item) == Append(q, item)

\* the frames a stream (or the queue) holds
FramesOf(stream) == { stream[i] : i \in 1..Len(stream) }

\* an append that carries no maxlen: the stream is never trimmed
xadd_uncapped(stream, entry) == { Append(stream, entry) }

\* XADD ... MAXLEN ~ FRAME_BUFFER_MAXLEN: the stream after the append; an
\* approximate trim removes oldest entries and never goes below the cap
xadd(stream, entry) ==
    LET appended == Append(stream, entry)
        n        == Len(appended)
    IN  IF n <= FRAME_BUFFER_MAXLEN
        THEN { appended }
        ELSE { SubSeq(appended, n - k + 1, n) :
                 k \in FRAME_BUFFER_MAXLEN..Min(n, FRAME_BUFFER_MAXLEN + MaxOver) }

InitIngestor ==
    /\ \E fps \in IngestorFps :
         /\ base_interval = sampler_base(CAPTURE_FPS, fps)
         /\ current_interval = sampler_base(CAPTURE_FPS, fps)
    /\ s_count = 0
    /\ prev_gray = FALSE
    /\ rd_pc = "read"
    /\ delay = 1
    /\ cap_opened \in BOOLEAN
    /\ captured = 0
    /\ rd_frame = <<>>
    /\ reader_stop = FALSE
    /\ stop_event = FALSE
    /\ dropped = 0
    /\ ingested = 0
    /\ \E n \in BusStarts :
         /\ bus = [i \in 1..n |-> i - n - FRAME_BUFFER_MAXLEN]
         /\ bus_delivered \in {0 - 2 * FRAME_BUFFER_MAXLEN, 0 - FRAME_BUFFER_MAXLEN}
    /\ \E q \in QueueStarts :
         /\ queue = [i \in 1..q |-> i - q]
         /\ p_pc = IF q = 0 THEN "get" ELSE "xlen"
         /\ p_frame = IF q = 0 THEN <<>> ELSE <<0 - q>>
    /\ GateIdle
    /\ ResolverIdle
    /\ WorkerIdle
    /\ CallIdle

\* while not self._stop.is_set(): ret, frame = cap.read(); on a frame, the
\* reader goes on to self.queue.full(); on a lost stream, to cap.release()
ReaderRead ==
    /\ rd_pc = "read"
    /\ IF reader_stop
       THEN /\ rd_pc' = "exited"
            /\ UNCHANGED <<captured, rd_frame, cap_opened>>
       ELSE \E ret \in { r \in BOOLEAN : r => (cap_opened /\ captured < MaxFrames) } :
              IF ret
              THEN /\ captured' = captured + 1
                   /\ rd_frame' = <<captured + 1>>
                   /\ rd_pc' = IF full(queue) THEN "displace" ELSE "put"
                   /\ UNCHANGED cap_opened
              ELSE /\ cap_opened' = FALSE
                   /\ rd_pc' = "sleep"
                   /\ UNCHANGED <<captured, rd_frame>>
    /\ UNCHANGED <<delay, reader_stop, queue, dropped, ingested, stop_event, p_pc, p_frame,
                   bus, bus_delivered, svars, gvars, rvars, wvars, avars>>

\* a reader that finds the queue full and goes on to put_nowait without
\* taking the oldest frame out
ReaderDisplace_keeps ==
    /\ rd_pc = "displace"
    /\ rd_pc' = "put"
    /\ UNCHANGED <<queue, dropped>>
    /\ UNCHANGED <<delay, cap_opened, captured, rd_frame, reader_stop, ingested, stop_event,
                   p_pc, p_frame, bus, bus_delivered, svars, gvars, rvars, wvars, avars>>

\* the queue was full: self.queue.get_nowait() and one drop; nothing when
\* the publisher has emptied the queue meanwhile (QueueEmpty)
ReaderDisplace ==
    /\ rd_pc = "displace"
    /\ IF queue # <<>>
       THEN queue' = get_nowait(queue) /\ dropped' = dropped + 1
       ELSE UNCHANGED <<queue, dropped>>
    /\ rd_pc' = "put"
    /\ UNCHANGED <<delay, cap_opened, captured, rd_frame, reader_stop, ingested, stop_event,
                   p_pc, p_frame, bus, bus_delivered, svars, gvars, rvars, wvars, avars>>

\* self.queue.put_nowait((frame, time.time())); QueueFull counts a drop
ReaderPut ==
    /\ rd_pc = "put"
    /\ IF full(queue)
       THEN dropped' = dropped + 1 /\ UNCHANGED queue
       ELSE queue' = put_nowait(queue, rd_frame[1]) /\ UNCHANGED dropped
    /\ rd_frame' = <<>>
    /\ rd_pc' = "read"
    /\ UNCHANGED <<delay, cap_opened, captured, reader_stop, ingested, stop_event,
                   p_pc, p_frame, bus, bus_delivered, svars, gvars, rvars, wvars, avars>>

\* time.sleep(delay); delay = min(delay * 2, RECONNECT_CEILING_S)
ReaderSleep ==
    /\ rd_pc = "sleep"
    /\ delay' = Min(delay * 2, RECONNECT_CEILING_S)
    /\ rd_pc' = "reopen"
    /\ UNCHANGED <<cap_opened, captured, rd_frame, reader_stop, queue, dropped, ingested,
                   stop_event, p_pc, p_frame, bus, bus_delivered, svars,
                   gvars, rvars, wvars, avars>>

\* cap = self._open_cap(); if not cap.isOpened(): continue; delay = 1.0; continue
ReaderReopen ==
    /\ rd_pc = "reopen"
    /\ \E opened \in BOOLEAN :
         /\ cap_opened' = opened
         /\ delay' = IF opened THEN 1 ELSE delay
    /\ rd_pc' = "read"
    /\ UNCHANGED <<captured, rd_frame, reader_stop, queue, dropped, ingested,
                   stop_event, p_pc, p_frame, bus, bus_delivered, svars,
                   gvars, rvars, wvars, avars>>

\* while not stop_event.is_set(): frame, ingest_ts = await wait_for(queue.get(), 1.0)
\* (a timeout on an empty queue comes back to the same place)
PublisherGet ==
    /\ p_pc = "get"
    /\ stop_event \/ (queue # <<>> /\ s_count < MaxCalls)
    /\ IF stop_event
       THEN p_pc' = "done" /\ UNCHANGED <<queue, p_frame>>
       ELSE /\ p_frame' = <<Head(queue)>>
            /\ queue' = Tail(queue)
            /\ p_pc' = "xlen"
    /\ UNCHANGED <<rd_pc, delay, cap_opened, captured, rd_frame, reader_stop, dropped,
                   ingested, stop_event, bus, bus_delivered, svars,
                   gvars, rvars, wvars, avars>>

\* stream_len = await redis_client.xlen(stream_key) returns; fill_pct; the
\* sampler decides; a frame it rejects is counted as dropped
PublisherXlen ==
    /\ p_pc = "xlen"
    /\ \E flow \in Flows : should_forward(fill_pct_of(Len(bus)), flow)
    /\ IF forwarded
       THEN p_pc' = "xadd" /\ UNCHANGED <<p_frame, dropped>>
       ELSE p_pc' = "get" /\ p_frame' = <<>> /\ dropped' = dropped + 1
    /\ UNCHANGED <<rd_pc, delay, cap_opened, captured, rd_frame, reader_stop, queue,
                   ingested, stop_event, bus, bus_delivered, gvars, rvars, wvars, avars>>

\* await redis_client.xadd(stream_key, {...}, maxlen=..., approximate=True) returns
PublisherXadd ==
    /\ p_pc = "xadd"
    /\ bus' \in xadd(bus, p_frame[1])
    /\ ingested' = ingested + 1
    /\ p_frame' = <<>>
    /\ p_pc' = "get"
    /\ UNCHANGED <<rd_pc, delay, cap_opened, captured, rd_frame, reader_stop, queue,
                   dropped, stop_event, bus_delivered, svars, gvars, rvars, wvars, avars>>

\* xlen or xadd raises (connection lost, timeout): nothing in
\* push_frames_to_redis catches it and the task ends with the exception
PublisherRaises ==
    /\ p_pc \in {"xlen", "xadd"}
    /\ p_pc' = "raised"
    /\ UNCHANGED <<rd_pc, delay, cap_opened, captured, rd_frame, reader_stop, queue,
                   dropped, ingested, stop_event, p_frame, bus, bus_delivered, svars,
                   gvars, rvars, wvars, avars>>

\* the consumers of the stream read every entry not yet delivered
ConsumerRead ==
    /\ bus # <<>>
    /\ bus[Len(bus)] > bus_delivered
    /\ bus_delivered' = bus[Len(bus)]
    /\ UNCHANGED <<rd_pc, delay, cap_opened, captured, rd_frame, reader_stop, queue,
                   dropped, ingested, stop_event, p_pc, p_frame, bus, svars,
                   gvars, rvars, wvars, avars>>

\* shutdown(): _stop_event.set(), then task.cancel() for every camera task.
\* The publisher, suspended at an await, gets CancelledError there; the reader
\* task is cancelled too, but its thread in the executor is not touched
Shutdown ==
    /\ ~stop_event
    /\ stop_event' = TRUE
    /\ p_pc' = IF p_pc \in {"raised", "done"} THEN p_pc ELSE "cancelled"
    /\ UNCHANGED <<rd_pc, delay, cap_opened, captured, rd_frame, reader_stop, queue,
                   dropped, ingested, p_frame, bus, bus_delivered, svars,
                   gvars, rvars, wvars, avars>>

NextIngestor ==
    \/ ReaderRead \/ ReaderDisplace \/ ReaderPut \/ ReaderSleep \/ ReaderReopen
    \/ PublisherGet \/ PublisherXlen \/ PublisherXadd \/ PublisherRaises
    \/ ConsumerRead \/ Shutdown

SpecIngestor == InitIngestor /\ [][NextIngestor]_vars

\* the reader's thread is scheduled again and again, whatever the event loop does
SpecIngestorFair ==
    /\ InitIngestor /\ [][NextIngestor]_vars
    /\ WF_vars(ReaderRead) /\ WF_vars(ReaderDisplace) /\ WF_vars(ReaderPut)
    /\ WF_vars(ReaderSleep) /\ WF_vars(ReaderReopen)

(***************************************************************************)
(* One call of the gate on arbitrary arguments                             *)
(***************************************************************************)
InitGate ==
    /\ g_in \in GateInputs
    /\ g_out = "pending"
    /\ ResolverIdle
    /\ WorkerIdle
    /\ CallIdle
    /\ IngestorIdle

GateCall ==
    /\ g_out = "pending"
    /\ g_out' = evaluate(g_in.candidate_id, g_in.current_camera, g_in.current_ts,
                         g_in.last_seen)
    /\ UNCHANGED <<g_in, rvars, wvars, avars, ivars>>

NextGate == GateCall

SpecGate == InitGate /\ [][NextGate]_vars

SpecResolver == InitResolver /\ [][NextResolver]_vars

SpecWorker == InitWorker /\ [][NextWorker]_vars

SpecFailOpen == InitWorker /\ [][NextFailOpen]_vars

SpecEmbedFail == InitWorker /\ [][NextEmbedFail]_vars

\* the loop of run_inference_worker never pauses: a worker that can take its
\* next step takes it, and a killed worker is started again; none of this is
\* assumed of the kills, the ingestors or the broker
SpecRecovery ==
    /\ InitWorker
    /\ [][NextRecovery]_vars
    /\ WF_vars(Restart)
    /\ WF_vars(WorkerRead)
    /\ WF_vars(ProcessDecode)
    /\ WF_vars(ProcessPublish)
    /\ WF_vars(ProcessAck)

(***************************************************************************)
(* Properties                                                              *)
(***************************************************************************)
\* M[from][to] as the specification reads the matrix: 3 s for a missing pair
MinTravel(from_cam, to_cam) ==
    IF from_cam \in DOMAIN DEFAULT_TRAVEL_MATRIX
       /\ to_cam \in DOMAIN DEFAULT_TRAVEL_MATRIX[from_cam]
    THEN DEFAULT_TRAVEL_MATRIX[from_cam][to_cam]
    ELSE 3

\* a sighting at to_cam at t1 is physically impossible after one at from_cam at t0
TooFast(from_cam, t0, to_cam, t1) ==
    /\ from_cam # to_cam
    /\ t1 - t0 <= 3600
    /\ t1 - t0 < MinTravel(from_cam, to_cam)

\* the customer_id of the i-th candidate and the gate's verdict on it, in the
\* state in which the gallery answers
CandidateId(cands, i) == DictGet(cands[i].payload, "customer_id", None)
GateVerdict(cands, i) ==
    evaluate(CandidateId(cands, i), event.camera_id, event.ingest_ts,
             get_last_seen(registry, CandidateId(cands, i), now))

\* C3: every event the resolver has consumed and finished handling has exactly
\* one ResolvedIdentity on trinetra.identities (as many identities as events
\* whenever the loop waits for the next message).
C3_OneIdentityPerEvent ==
    r_pc = "poll" => identities = consumed

\* C4: when resolve returns after a gallery answer, customer_id is that of the
\* first candidate the gate accepts, every earlier candidate was not
\* accepted, and customer_id is null exactly when no candidate is accepted.
C4_FirstAcceptedOrNull ==
    [][ (r_pc = "search" /\ r_pc' = "publish") =>
          LET cands    == search_results'[1]
              accepted == { i \in 1..Len(cands) : GateVerdict(cands, i) = ACCEPT }
          IN  /\ (accepted = {}) <=> (resolved'[1].customer_id = None)
              /\ accepted # {} =>
                   \E i \in accepted :
                      /\ \A j \in accepted : i <= j
                      /\ resolved'[1].customer_id = CandidateId(cands, i) ]_vars

C6_NoImpossibleTransition ==
    [][ (r_pc = "search" /\ r_pc' = "publish") =>
          \A c \in DOMAIN registry :
              TooFast(registry[c].camera_id, registry[c].last_seen_ts,
                      event.camera_id, event.ingest_ts)
                  => resolved'[1].customer_id # c ]_vars

\* C7: every ResolvedIdentity handed to trinetra.identities with a customer_id
\* that is not null has confidence >= COSINE_THRESHOLD (0.72).
C7_ConfidenceAtLeastThreshold ==
    (r_pc = "publish" /\ resolved[1].customer_id # None)
        => resolved[1].confidence >= 72

\* C7 witness: a matched identity whose score is exactly the threshold
C7_Witness ==
    /\ r_pc = "publish"
    /\ resolved[1].customer_id \in Customers
    /\ resolved[1].confidence = 72
    /\ Len(search_results[1]) = 2

\* ---- the worker
\* the entries of the Frame Bus, as <<camera, id>>
Entries == { ce \in WCameras \X (1..MaxEntries) : ce[2] <= Len(streams[ce[1]]) }
Entry(ce) == streams[ce[1]][ce[2]]
\* the messages on the producer's side that carry the entry's camera_id and ingest_ts
EventsOf(ce) ==
    { i \in 1..Len(produced) :
        /\ produced[i].value.camera_id = Entry(ce).camera_id
        /\ produced[i].value.ingest_ts = Entry(ce).ingest_ts }
Delivered(ce) == ce[2] <= last_delivered[ce[1]]
Pending(ce) == \E p \in pel : p.stream_key = StreamKey(ce[1]) /\ p.msg_id = ce[2]
Acked(ce) == Delivered(ce) /\ ~Pending(ce)
IsMsgOf(m, ce) == m.stream_key = StreamKey(ce[1]) /\ m.msg_id = ce[2]
\* the entry waits in the accumulator or in a batch that is not decoded yet
Waiting(ce) ==
    \/ \E i \in 1..Len(acc_batch) : IsMsgOf(acc_batch[i], ce)
    \/ w_pc = "decode" /\ \E i \in 1..Len(batch) : IsMsgOf(batch[i], ce)
\* the entry decoded and its result is built but not yet produced
Unpublished(ce) == w_pc = "publish" /\ \E i \in 1..Len(meta) : IsMsgOf(meta[i], ce)

\* C1: a Frame Bus entry that decoded is acked only after the producer has
\* reported the delivery of its InferenceEvent (an acked entry has a
\* delivered event; one whose delivery failed is not acked).
C1_AckOnlyAfterDelivery ==
    \A ce \in Entries :
        (Entry(ce).frame = "jpeg" /\ Acked(ce))
            => \E i \in EventsOf(ce) : produced[i].status = "delivered"

\* C2: an entry that decodes, was read by a worker and is still unacked when
\* that worker is killed leads to an InferenceEvent for it handed to the
\* Event Bus, the worker being restarted in the same consumer group and
\* running on (no entry read before the kill is lost).
C2_UnackedEntryEventuallyPublished ==
    \A c \in WCameras, i \in 1..MaxEntries :
        (/\ w_pc = "dead"
         /\ i <= Len(streams[c])
         /\ streams[c][i].frame = "jpeg"
         /\ Pending(<<c, i>>))
            ~> (i <= Len(streams[c]) /\ EventsOf(<<c, i>>) # {})

\* C8: in every InferenceEvent handed to the Event Bus there are as many
\* embeddings as detections and the i-th embedding is that of the i-th
\* detection's box.
C8_EmbeddingsAligned ==
    \A i \in 1..Len(produced) :
        LET v == produced[i].value
        IN  /\ Len(v.embeddings) = Len(v.detections)
            /\ \A k \in 1..Len(v.embeddings) :
                   v.embeddings[k] = Embedding(v.detections[k].bbox)

\* C9: an entry that decodes has exactly one InferenceEvent with its camera_id
\* and ingest_ts once its batch has been published (and never more than
\* one), whatever the detector found; an entry that does not decode has no
\* event and is acked once its batch has been decoded.
C9_OneEventPerDecodedEntry ==
    \A ce \in Entries :
        LET n == Cardinality(EventsOf(ce))
            through == Delivered(ce) /\ ~Waiting(ce)
        IN  /\ n <= 1
            /\ Entry(ce).frame = "corrupt" => n = 0 /\ (through => Acked(ce))
            /\ Entry(ce).frame = "jpeg" =>
                   /\ (through /\ ~Unpublished(ce)) => n = 1
                   /\ Acked(ce) => n = 1

\* C9 witness: a frame without detections has its event (empty detections and
\* embeddings) and a corrupted entry of the same batch is acked without one
C9_Witness ==
    /\ w_pc = "ack"
    /\ \E ce \in Entries :
          /\ Entry(ce).frame = "jpeg"
          /\ \E i \in EventsOf(ce) :
                produced[i].value.detections = <<>> /\ produced[i].value.embeddings = <<>>
    /\ \E ce \in Entries :
          /\ Entry(ce).frame = "corrupt" /\ Acked(ce) /\ EventsOf(ce) = {}
          /\ \E i \in 1..Len(batch) : IsMsgOf(batch[i], ce)

\* C10: the frames the worker passes to inference in one batch are never more
\* than BATCH_SIZE.
C10_BatchAtMostBatchSize ==
    Len(meta) <= BATCH_SIZE

\* C11: is_ready (also as returned by add) is true exactly when the pending
\* frames are at least BATCH_SIZE or at least BATCH_TIMEOUT_MS (20 ms) have
\* passed since the batch start; flush returns all pending frames in their
\* order, leaves the accumulator empty and restarts the timer.
C11_ReadyAndFlush ==
    [][ /\ (a_ret' # <<>> /\ a_ret'[1] \in {"add", "is_ready"}) =>
              (a_ret'[2] <=> (Len(acc_batch') >= BATCH_SIZE \/ acc_age' >= 20))
        /\ (a_ret' # <<>> /\ a_ret'[1] = "add") =>
              acc_batch' = acc_batch \o a_in'
        /\ (a_ret' # <<>> /\ a_ret'[1] = "flush") =>
              /\ a_ret'[2] = acc_batch
              /\ acc_batch' = <<>>
              /\ acc_age' = 0 ]_vars

\* C11 witness: is_ready answered true with one frame pending at exactly the timeout
C11_Witness ==
    /\ a_ret = <<"is_ready", TRUE>>
    /\ Len(acc_batch) = 1
    /\ acc_age = 20

\* C12: no frame spends more than BATCH_TIMEOUT_MS (20 ms) in the accumulator
\* before its batch is flushed to _process_batch, also when no further frame
\* arrives.
C12_PendingAtMostTimeout ==
    acc_wait <= 20

\* the indices of the candidates the gate accepts, in the state in which the
\* gallery answers
AcceptedBy(cands) == { i \in 1..Len(cands) : GateVerdict(cands, i) = ACCEPT }
FirstOf(S) == CHOOSE i \in S : \A j \in S : i <= j
\* the registry entry made of the current event
EntryOfEvent ==
    [camera_id |-> event.camera_id, last_seen_ts |-> event.ingest_ts,
     embedding |-> event.embeddings[1]]

\* C13: resolve changes the registry only when a candidate is accepted, and
\* then only the accepted customer's entry, which becomes {camera_id,
\* ingest_ts, embedding} of the current event; every other entry is
\* unchanged; a result with customer_id null leaves the registry unchanged,
\* and a result with a customer has that customer's entry set.
C13_RegistryFrame ==
    [][ (r_pc \in {"resolve", "search"} /\ r_pc' # r_pc) =>
          /\ registry' # registry =>
                /\ r_pc = "search" /\ r_pc' = "publish"
                /\ AcceptedBy(search_results'[1]) # {}
                /\ LET c == CandidateId(search_results'[1], FirstOf(AcceptedBy(search_results'[1])))
                   IN  /\ DOMAIN registry' = DOMAIN registry \cup {c}
                       /\ registry'[c] = EntryOfEvent
                       /\ \A k \in DOMAIN registry \ {c} : registry'[k] = registry[k]
          /\ (r_pc' = "publish" /\ resolved'[1].customer_id = None) =>
                registry' = registry
          /\ (r_pc' = "publish" /\ Truthy(resolved'[1].customer_id)) =>
                /\ resolved'[1].customer_id \in DOMAIN registry'
                /\ registry'[resolved'[1].customer_id] = EntryOfEvent
                /\ \A k \in DOMAIN registry \ {resolved'[1].customer_id} :
                       k \in DOMAIN registry' /\ registry'[k] = registry[k] ]_vars

\* C13 witness: a match has been recorded for the current event while the
\* entry of another customer, seen at another camera, is still there
C13_Witness ==
    /\ r_pc = "publish"
    /\ Truthy(resolved[1].customer_id)
    /\ resolved[1].customer_id \in DOMAIN registry
    /\ registry[resolved[1].customer_id].camera_id = event.camera_id
    /\ \E k \in DOMAIN registry : registry[k].camera_id # event.camera_id

\* C14: an alert is returned only with a ResolvedIdentity whose customer_id is
\* null and whose camera_type is billing, and one is returned for every such
\* identity that follows a completed gallery query in which no candidate was
\* accepted; it has alert_type UNKNOWN_AT_BILLING, severity MEDIUM, the
\* identity's camera_id and metadata {track_id}.
C14_AlertOnlyUnknownAtBilling ==
    [][ (r_pc \in {"resolve", "search"} /\ r_pc' = "publish") =>
          LET res == resolved'[1]
          IN  /\ alert' # <<>> =>
                    /\ res.customer_id = None
                    /\ res.camera_type = "billing"
                    /\ alert'[1].alert_type = "UNKNOWN_AT_BILLING"
                    /\ alert'[1].severity = "MEDIUM"
                    /\ alert'[1].camera_id = res.camera_id
                    /\ alert'[1].metadata = [track_id |-> res.track_id]
              /\ (/\ search_results' # <<>>
                  /\ AcceptedBy(search_results'[1]) = {}
                  /\ res.customer_id = None
                  /\ res.camera_type = "billing") => alert' # <<>> ]_vars

\* C15: for an event with no embeddings or no detections resolve returns at
\* once an UNKNOWN identity (customer_id null, match_method unknown,
\* confidence 0): the gallery is not queried, no alert is returned (also at
\* a billing camera) and the registry is unchanged. (The event has the keys
\* camera_id, camera_type and ingest_ts of an InferenceEvent.)
C15_EmptyEventIsUnknown ==
    [][ (/\ r_pc = "resolve" /\ r_pc' # r_pc
         /\ "camera_id" \in DOMAIN event
         /\ (event.embeddings = <<>> \/ event.detections = <<>>)) =>
          /\ r_pc' = "publish"
          /\ search_results' = <<>>
          /\ resolved'[1].customer_id = None
          /\ resolved'[1].match_method = "unknown"
          /\ resolved'[1].confidence = 0
          /\ alert' = <<>>
          /\ registry' = registry ]_vars

\* C15 witness: an event of a billing camera with an embedding and no
\* detection has its UNKNOWN identity and no alert
C15_Witness ==
    /\ r_pc = "publish"
    /\ event.camera_type = "billing"
    /\ event.embeddings # <<>> /\ event.detections = <<>>
    /\ resolved[1].customer_id = None
    /\ alert = <<>>

\* C16: when the gallery query fails resolve returns an UNKNOWN identity
\* (customer_id null, match_method unknown) to main instead of raising, and
\* the registry is unchanged; main goes on with this result.
C16_GalleryFailureIsUnknown ==
    [][ (r_pc = "search" /\ r_pc' # r_pc /\ search_results' = <<>>) =>
          /\ r_pc' = "publish"
          /\ resolved' # <<>>
          /\ resolved'[1].customer_id = None
          /\ resolved'[1].match_method = "unknown"
          /\ registry' = registry ]_vars

\* C16 witness: the query of an event with an embedding and a detection
\* failed, and the UNKNOWN identity is about to be published
C16_Witness ==
    /\ r_pc = "publish"
    /\ event.embeddings # <<>> /\ event.detections # <<>>
    /\ search_results = <<>>
    /\ resolved[1].customer_id = None
    /\ resolved[1].match_method = "unknown"

\* C17: no error raised while one event is handled (in resolve, or in
\* publishing the identity or the alert) ends the consume loop.
C17_LoopNeverStops ==
    r_pc # "stopped"

\* C18: get_last_seen(cid) returns the stored record exactly when cid has a
\* record and now - last_seen_ts < TTL (3600 s; an age of exactly the TTL
\* returns null), and null otherwise.
C18_LastSeenWithinTtl ==
    a_ret # <<>> =>
        LET cid == a_in[1]
        IN  a_ret[2] = IF cid \in DOMAIN registry /\ now - registry[cid].last_seen_ts < 3600
                       THEN <<registry[cid]>>
                       ELSE <<>>

\* C18 witness: null was returned for a record whose age is exactly the TTL
C18_Witness ==
    /\ a_ret = <<"get_last_seen", <<>> >>
    /\ a_in[1] \in DOMAIN registry
    /\ now - registry[a_in[1]].last_seen_ts = 3600

\* C19: the sweep runs exactly when the count of processed events reaches a
\* multiple of 1000: on that step the registry afterwards holds no entry with
\* last_seen_ts older than now - TTL (3600 s), every non-expired entry is kept
\* unchanged and nothing else appears; on every other count the registry is
\* left as it was.
C19_SweepEveryThousand ==
    [][ evict_counter' # evict_counter =>
          IF evict_counter' % 1000 = 0
          THEN /\ \A k \in DOMAIN registry' : ~(registry'[k].last_seen_ts < now' - 3600)
               /\ \A k \in DOMAIN registry :
                     now - registry[k].last_seen_ts < 3600 =>
                         k \in DOMAIN registry' /\ registry'[k] = registry[k]
               /\ \A k \in DOMAIN registry' :
                     k \in DOMAIN registry /\ registry'[k] = registry[k]
          ELSE registry' = registry ]_vars

\* C19 witness: the 1000th event has been counted at a time when an entry
\* recorded at 0 would be expired, and a fresh entry is still there
C19_Witness ==
    /\ evict_counter = 1000
    /\ r_pc = "poll"
    /\ now = 3620
    /\ DOMAIN registry = {"bob"}
    /\ registry["bob"].last_seen_ts = 3601
    /\ identities = 2

C21_ResolveAfterIngest ==
    [][ (resolved = <<>> /\ resolved' # <<>> /\ event.ingest_ts <= now) =>
          resolved'[1].resolve_ts >= resolved'[1].ingest_ts ]_vars

\* C21 witness: an unknown result for an event stamped at 3 and resolved at 3600
C21_Witness ==
    /\ r_pc = "publish"
    /\ resolved[1].customer_id = None
    /\ resolved[1].ingest_ts = 3
    /\ resolved[1].resolve_ts = 3600

\* C22: every ResolvedIdentity has match_method "ann" when customer_id is not
\* null and "unknown" when customer_id is null.
C22_MatchMethodAnnOrUnknown ==
    resolved # <<>> =>
        resolved[1].match_method = IF resolved[1].customer_id # None THEN "ann" ELSE "unknown"

\* C23: each call of should_forward sets current_interval to
\* min(current_interval + 1, 3 * base_interval) when fill_pct > 80, otherwise to
\* max(1, current_interval - 1) when motion > 2.5, otherwise to base_interval
\* (a fill_pct of exactly 80 takes the motion branch), and returns true
\* exactly when the number of frames seen so far is divisible by the updated
\* current_interval.
C23_SamplerInterval ==
    [][ s_count' = s_count + 1 =>
          LET fill   == a_in'[1]
              motion == a_in'[2]
              bumped == IF current_interval + 1 <= 3 * base_interval
                        THEN current_interval + 1 ELSE 3 * base_interval
              eased  == IF current_interval - 1 >= 1 THEN current_interval - 1 ELSE 1
          IN  /\ current_interval' = IF fill > 80 THEN bumped
                                     ELSE IF motion > 25 THEN eased
                                     ELSE base_interval
              /\ a_ret' = <<"should_forward", s_count' % current_interval' = 0>> ]_vars

\* C23 witness: a call at fill_pct 80 with motion above the threshold has
\* shortened the interval, and the frame was not forwarded
C23_Witness ==
    /\ a_ret = <<"should_forward", FALSE>>
    /\ a_in = <<80, 26>>
    /\ base_interval = 3
    /\ current_interval = 2

\* C24: whenever the publisher handles a frame while the stream of its camera
\* has length >= 80, the sampler's current_interval after that frame is
\* strictly greater than before it.
C24_BackpressureRaisesInterval ==
    [][ (s_count' = s_count + 1 /\ Len(bus) >= 80) =>
          current_interval' > current_interval ]_vars

\* the frames that are on their way to a consumer
Held == FramesOf(rd_frame) \cup FramesOf(queue) \cup FramesOf(p_frame)
            \cup { f \in FramesOf(bus) : f > bus_delivered }
\* the frames a step removes from the way without a consumer having read them
Lost == { f \in Held : f \notin (FramesOf(rd_frame') \cup FramesOf(queue')
                                   \cup FramesOf(p_frame') \cup FramesOf(bus')) }

\* C25: every frame that is dropped before a consumer can read it (displaced
\* from the full queue, rejected by the sampler, trimmed from the stream by
\* the MAXLEN cap) increments the camera's dropped-frames counter exactly once.
C25_EveryDropCounted ==
    [][ dropped' = dropped + Cardinality(Lost) ]_vars

\* C26: the queue never holds more than 100 frames; a new frame that finds
\* the queue full makes the reader remove the oldest queued frame and count
\* one drop, then enqueue the new frame; the queue holds frames in capture
\* order, the newest last.
C26_QueueDropsOldest ==
    [][ /\ Len(queue') <= 100
        /\ (captured' = captured + 1 /\ Len(queue) = 100) => rd_pc' = "displace"
        /\ (rd_pc = "displace" /\ rd_pc' = "put" /\ queue # <<>>) =>
               (queue' = Tail(queue) /\ dropped' = dropped + 1)
        /\ (rd_pc = "put" /\ rd_pc' = "read") =>
               (queue' = Append(queue, captured) /\ dropped' = dropped)
        /\ \A i \in 1..(Len(queue') - 1) : queue'[i] < queue'[i + 1] ]_vars

\* C26 witness: frame 2 found the queue full; the oldest frame went, one drop
\* was counted and frame 2 is the last of 100 queued frames
C26_Witness ==
    /\ rd_pc = "read"
    /\ Len(queue) = 100
    /\ queue[100] = 2
    /\ queue[1] = -97
    /\ dropped = 1
    /\ p_pc = "xlen"

\* C27: the reconnect delay is always within [1, 30] s and returns to 1 s only
\* when a frame has been read successfully, so that the k-th consecutive
\* failure without a frame in between sleeps min(2^(k-1), 30) s; a reopen
\* that succeeds without a frame does not reset it.
C27_DelayResetsOnFrameOnly ==
    [][ /\ (rd_pc' # "off" => (delay' >= 1 /\ delay' <= 30))
        /\ (delay > 1 /\ delay' = 1) => captured' = captured + 1 ]_vars

\* C28: a failing Frame Bus call (xlen or xadd) does not terminate the
\* camera's publisher.
C28_PublisherSurvivesBusError == p_pc # "raised"

\* C29: after shutdown has run, the reader loop eventually observes its stop
\* flag, leaves the loop and releases its capture.
C29_ReaderStopsAfterShutdown ==
    stop_event ~> (rd_pc = "exited" /\ ~cap_opened)

\* C30: on shutdown the publisher terminates only after it has handled every
\* frame that was in its queue (and the one in its hand).
C30_PublisherDrainsQueue ==
    [][ (p_pc \in {"get", "xlen", "xadd"} /\ p_pc' \in {"cancelled", "done"}) =>
          (queue = <<>> /\ p_frame = <<>>) ]_vars

\* the entries of all streams that have been delivered and decode
DeliveredJpeg ==
    { ce \in { <<c, i>> : c \in WCameras, i \in 1..MaxEntries } :
        /\ ce[2] <= last_delivered[ce[1]]
        /\ streams[ce[1]][ce[2]].frame = "jpeg" }

C33_UnitNormEmbeddings ==
    \A i \in 1..Len(produced) :
        \A k \in 1..Len(produced[i].value.embeddings) :
            LET norm == L2Norm(produced[i].value.embeddings[k])
            IN  norm >= 1000000 - 1 /\ norm <= 1000000 + 1

\* C34: the Frame Bus stream never holds more than MAXLEN entries plus the
\* slack of the approximate trim, since every append of the ingestor carries
\* the cap, whatever the rates of appends and reads.
C34_StreamLengthBounded ==
    Len(bus) <= FRAME_BUFFER_MAXLEN + MaxOver

\* the ingestor has appended to a stream at its cap and the trim left slack
C34_Witness ==
    /\ ingested >= 1
    /\ Len(bus) = FRAME_BUFFER_MAXLEN + MaxOver
    /\ bus[Len(bus)] > bus_delivered

\* C35: in one resolver process the events are resolved strictly one after
\* another: no event is taken while another is in progress, and the registry
\* is read by the gate and written by record in one step of the event in
\* progress, with no suspension point between the two.
C35_RegistryAccessNotInterleaved ==
    [][ /\ (r_pc \in {"resolve", "search", "publish", "publish_alert"}
              => event' \in {event, <<>>})
        /\ (consumed' # consumed => r_pc = "poll")
        /\ (registry' # registry
              => r_pc \in {"search", "publish", "publish_alert"})
        /\ (r_pc = "search" /\ registry' # registry
              => /\ event' = event
                 /\ r_pc' = "publish"
                 /\ Truthy(resolved'[1].customer_id)
                 /\ resolved'[1] =
                      build_resolved(event,
                                     gating_loop(search_results'[1], 1, event.camera_id,
                                                 event.ingest_ts, registry, now),
                                     now)
                 /\ registry' = record(registry, resolved'[1].customer_id,
                                       event.camera_id, event.ingest_ts,
                                       event.embeddings[1])) ]_vars

\* a later event has been matched against, and recorded over, the record that
\* an earlier event left for the same customer
C35_Witness ==
    /\ consumed >= 2
    /\ r_pc = "publish"
    /\ resolved # <<>>
    /\ Truthy(resolved[1].customer_id)
    /\ resolved[1].customer_id \in DOMAIN registry
    /\ registry[resolved[1].customer_id].last_seen_ts = event.ingest_ts
    /\ registry[resolved[1].customer_id].camera_id = event.camera_id

\* C37: every ResolvedIdentity whose customer_id is null has confidence 0.0
\* and match_method unknown, whatever the candidates, also those whose
\* payload has no customer_id or an empty one.
C37_UnknownHasZeroConfidence ==
    (resolved # <<>> /\ resolved[1].customer_id = None)
        => /\ resolved[1].confidence = 0
           /\ resolved[1].match_method = "unknown"

C39_IntervalWithinBounds ==
    /\ base_interval >= 1
    /\ current_interval >= 1
    /\ current_interval <= 3 * base_interval

\* a camera whose target rate is above the capture rate (base_interval 1):
\* calls under backpressure have raised the interval to its cap
C39_Witness ==
    /\ a_ret # <<>>
    /\ a_ret[1] = "should_forward"
    /\ s_count >= 3
    /\ a_in[1] > HIGH_WATER_MARK
    /\ base_interval = 1
    /\ current_interval = 3 * base_interval

\* C40: the reader being the only producer of the queue, the put_nowait that
\* follows its full-check and drop-oldest never meets a full queue, whatever
\* the publisher dequeues meanwhile: every frame read is enqueued; a frame
\* leaves the queue only at its head, either into the publisher's hand or as
\* a counted drop; and the publisher is never handed a frame a second time
\* (each frame handed over is older than all that stay behind, each frame
\* enqueued is newer than all that went before).
C40_HandOffLosesNothing ==
    [][ /\ ((rd_pc = "put" /\ rd_pc' = "read")
              => /\ ~full(queue)
                 /\ queue' = Append(queue, rd_frame[1])
                 /\ dropped' = dropped
                 /\ (queue = <<>> \/ queue[Len(queue)] < rd_frame[1])
                 /\ (p_frame = <<>> \/ p_frame[1] < rd_frame[1]))
        /\ ((rd_frame # <<>> /\ rd_frame' # rd_frame) => rd_pc = "put")
        /\ ((queue' # queue /\ rd_pc # "put")
              => /\ queue # <<>>
                 /\ queue' = Tail(queue)
                 /\ \/ p_frame' = <<Head(queue)>> /\ dropped' = dropped
                    \/ p_frame' = p_frame /\ dropped' = dropped + 1)
        /\ ((p_frame' # p_frame /\ p_frame' # <<>>)
              => /\ p_frame'[1] = Head(queue)
                 /\ queue' = Tail(queue)
                 /\ (queue' = <<>> \/ p_frame'[1] < queue'[1])
                 /\ (rd_frame' = <<>> \/ p_frame'[1] < rd_frame'[1])) ]_vars

\* the reader found the queue full with frame 2 in hand, the publisher took a
\* frame out before the reader's drop-oldest, and frame 2 was enqueued
C40_Witness ==
    /\ rd_pc = "read"
    /\ captured = 2
    /\ Len(queue) = FRAME_BUFFER_MAXLEN - 1
    /\ queue[Len(queue)] = 2
    /\ dropped >= 1
    /\ p_pc = "xlen"
    /\ p_frame # <<>>
    /\ queue[1] = p_frame[1] + 2

\* the place in its camera's stream of the entry an event was made from
EntryOf(ev) ==
    CHOOSE k \in 1..Len(streams[ev.camera_id]) :
        streams[ev.camera_id][k].ingest_ts = ev.ingest_ts

C36_WitnessMixed ==
    /\ Len(produced) = 3
    /\ produced[1].value.camera_id = produced[2].value.camera_id
    /\ produced[3].value.camera_id # produced[1].value.camera_id
    /\ produced[3].value.ingest_ts < produced[2].value.ingest_ts

====
